---- MODULE Spec2Model ----
(***************************************************************************)
(* Model of turbinia/config/__init__.py: the process-wide configuration    *)
(* cache (LoadConfig, ValidateAndSetConfig) and the recipe loader          *)
(* (TurbiniaRecipe.load, load_recipe_from_dict, _verify_global_recipe).    *)
(*                                                                         *)
(* Python values are sequences of strings <<tag, ...>>, so that values of  *)
(* different Python types can be compared: <<"none">>, <<"bool", "True">>, *)
(* <<"str", s>>, <<"int", n>>.  A list is a mutable object: a list that is *)
(* reachable from a recipe or from the class defaults is a reference       *)
(* <<"list", owner, key>> into `heap`; a list a parsed document carries    *)
(* before it is stored is the literal <<"lit", item, ...>>.  A dict is a   *)
(* function from its keys to values.                                       *)
(***************************************************************************)
EXTENDS Naturals, Sequences, FiniteSets, TLC

VARIABLES
  CONFIG,        \* the module global CONFIG (line 101)
  module,        \* what ValidateAndSetConfig / LoadConfig set outside CONFIG
  recipe_file,   \* self.recipe_file of every constructed TurbiniaRecipe
  task_recipes,  \* self.task_recipes of every constructed TurbiniaRecipe
  task_recipe,   \* the attribute self.task_recipe that load() assigns (line 225)
  heap,          \* the list objects reachable from recipes and class defaults
  last           \* the most recent call: its arguments, what it saw, what it raised

vars == <<CONFIG, module, recipe_file, task_recipes, task_recipe, heap, last>>

----------------------------------------------------------------------------
(* Python values *)

PyNone == <<"none">>
PyTrue == <<"bool", "True">>
PyFalse == <<"bool", "False">>
PyStr(s) == <<"str", s>>
PyInt(n) == <<"int", n>>
ListLit(items) == <<"lit">> \o items
ListRef(owner, key) == <<"list", owner, key>>

IsLit(v) == v[1] = "lit"
IsRef(v) == v[1] = "list"
Items(v) == Tail(v)
RefId(v) == <<v[2], v[3]>>

\* bool(v) of a value that is not a stored list (None, False, '', 0, [] are falsy)
Truthy(v) ==
  /\ v # PyNone
  /\ v # PyFalse
  /\ v # PyStr("")
  /\ v # PyInt("0")
  /\ v # ListLit(<<>>)

EmptyDict == [k \in {} |-> PyNone]
Put(d, k, v) == [x \in (DOMAIN d) \cup {k} |-> IF x = k THEN v ELSE d[x]]

\* a YAML value that is no mapping (null, a scalar, a sequence)
NotAMapping == [k \in {"<not a mapping>"} |-> PyNone]
IsMapping(c) == c # NotAMapping

----------------------------------------------------------------------------
(* Exceptions *)

NoExc == [type |-> "none", msg |-> "", item |-> ""]
Raise(type, msg, item) == [type |-> type, msg |-> msg, item |-> item]
TurbiniaException(msg, item) == Raise("TurbiniaException", msg, item)

----------------------------------------------------------------------------
(* The class attributes of TurbiniaRecipe *)

GlobalsFields ==
  {"debug_tasks", "jobs_allowlist", "jobs_denylist", "yara_rules", "filter_patterns"}

ListKeys == {"jobs_allowlist", "jobs_denylist", "filter_patterns"}

\* The two [] of the class attribute are list objects of their own: every
\* reader of the dict gets the same two objects.
DEFAULT_GLOBALS_RECIPE ==
  [item \in GlobalsFields |->
     CASE item = "debug_tasks" -> PyFalse
       [] item = "jobs_allowlist" -> ListRef("DEFAULT", "jobs_allowlist")
       [] item = "jobs_denylist" -> ListRef("DEFAULT", "jobs_denylist")
       [] item = "yara_rules" -> PyStr("")
       [] item = "filter_patterns" -> PyStr("")]

DEFAULT_RECIPE == "DEFAULT_RECIPE"

----------------------------------------------------------------------------
(* turbinia.lib.file_helpers *)

FileLines(path) == IF path = "/pf" THEN <<"a", "b">> ELSE <<"c">>
FileText(path) == IF path = "/yf" THEN "rule from /yf" ELSE "rule from another file"
Readable(path) == path # "/missing"

file_to_list(path) == ListLit(FileLines(path))
file_to_str(path) == PyStr(FileText(path))

----------------------------------------------------------------------------
(* LoadConfig and ValidateAndSetConfig *)

NoConfig == [isNone |-> TRUE, configSource |-> PyNone, contents |-> ""]
Config(path, contents) == [isNone |-> FALSE, configSource |-> path, contents |-> contents]

CONFIGFILES == <<".turbiniarc", "turbinia.conf", "turbinia_config_tmpl.py">>
CONFIGPATH == <<"~", "/etc/turbinia", "turbinia/config">>

JoinPath(dir, file) == <<"str", dir, file>>

\* itertools.product(configpath, CONFIGFILES): directories outermost
RECURSIVE Product(_, _, _, _)
Product(dirs, files, i, j) ==
  IF i > Len(dirs) THEN <<>>
  ELSE IF j > Len(files) THEN Product(dirs, files, i + 1, 1)
  ELSE <<JoinPath(dirs[i], files[j])>> \o Product(dirs, files, i, j + 1)

\* the loop of lines 131-134: the first candidate that exists, else None
RECURSIVE FirstExisting(_, _, _)
FirstExisting(candidates, existing, i) ==
  IF i > Len(candidates) THEN PyNone
  ELSE IF candidates[i] \in existing THEN candidates[i]
  ELSE FirstExisting(candidates, existing, i + 1)

\* lines 124-128: TURBINIA_CONFIG_PATH, when set, replaces CONFIGPATH
ConfigSearchPath(environ) == IF environ = PyNone THEN CONFIGPATH ELSE <<environ[2]>>

\* mutant of ReturnsCached: the cache is returned whatever path is given
ReturnsCachedIgnoringPath(cfg, config_file) == ~cfg.isNone

\* line 116: `CONFIG and not config_file`
ReturnsCached(cfg, config_file) == ~cfg.isNone /\ ~Truthy(config_file)

\* what a config file holds: it cannot be read, it lacks a required variable
\* (or sets one to None), or it is a complete config
Unreadable == "unreadable"
Incomplete == "incomplete"
CompleteConfigs == {"v1", "v2"}
HasProject(contents) == contents = "v1"

InitModule == [configSource |-> PyNone, vars |-> "unset", GOOGLE_CLOUD_PROJECT |-> "unset"]

\* ValidateAndSetConfig: configSource is set first (line 170); the variables
\* are copied one by one, and a required one that is missing raises half way
ValidateAndSetConfig(mod, path, contents) ==
  IF contents = Incomplete
  THEN [module |-> [mod EXCEPT !.configSource = path, !.vars = "partial"],
        exc |-> TurbiniaException("required config attribute", "")]
  ELSE [module |-> [mod EXCEPT !.configSource = path, !.vars = contents],
        exc |-> NoExc]

\* LoadConfig(config_file) in a file system where `existing` are the default
\* candidates that exist and the file read holds `contents`
LoadConfig(cfg, mod, config_file, environ, existing, contents) ==
  IF ReturnsCached(cfg, config_file)
  THEN [CONFIG |-> cfg, module |-> mod, exc |-> NoExc, ret |-> cfg, reloaded |-> PyNone]
  ELSE
    LET file == IF ~Truthy(config_file)
                THEN LET found == FirstExisting(
                            Product(ConfigSearchPath(environ), CONFIGFILES, 1, 1), existing, 1)
                     IN IF found # PyNone THEN found ELSE config_file
                ELSE config_file
    IN IF file = PyNone
       THEN [CONFIG |-> cfg, module |-> mod, ret |-> NoConfig, reloaded |-> PyNone,
             exc |-> TurbiniaException("No config files found", "")]
       ELSE IF contents = Unreadable \/ ~Truthy(file)
       THEN [CONFIG |-> cfg, module |-> mod, ret |-> NoConfig, reloaded |-> file,
             exc |-> TurbiniaException("Could not load config file", "")]
       ELSE
         LET v == ValidateAndSetConfig(mod, file, contents)
         IN IF v.exc # NoExc
            THEN [CONFIG |-> cfg, module |-> v.module, ret |-> NoConfig,
                  reloaded |-> file, exc |-> v.exc]
            ELSE [CONFIG |-> Config(file, contents),
                  module |-> IF HasProject(contents)
                             THEN [v.module EXCEPT !.GOOGLE_CLOUD_PROJECT = contents]
                             ELSE v.module,
                  ret |-> Config(file, contents), reloaded |-> file, exc |-> NoExc]

----------------------------------------------------------------------------
(* TurbiniaRecipe.load_recipe_from_dict *)

\* line 257: `recipe_item_contents['task'] in tasks_with_recipe`
TaskSeen(task, tasks_with_recipe) ==
  \E n \in 1..Len(tasks_with_recipe) : task = PyStr(tasks_with_recipe[n])

\* mutant of KeyErrorRaises: the test on the item's name is inverted
KeyErrorRaisesForGlobals(recipe_item) == recipe_item = "globals"

\* lines 263-268: the KeyError handler raises unless the item is globals
KeyErrorRaises(recipe_item) == recipe_item # "globals"

\* lines 250-268: what the checks of one item raise
CheckItem(recipe_item, contents, recipes, tasks_with_recipe) ==
  IF recipe_item \in DOMAIN recipes
  THEN TurbiniaException("Two recipe items with the same name", recipe_item)
  ELSE IF ~IsMapping(contents)
  THEN Raise("TypeError", "not subscriptable", recipe_item)
  ELSE IF "task" \in DOMAIN contents
  THEN IF TaskSeen(contents["task"], tasks_with_recipe)
       THEN TurbiniaException("Two recipe items for the same task", recipe_item)
       ELSE NoExc
  ELSE IF KeyErrorRaises(recipe_item)
  THEN TurbiniaException("Recipe item has not task key", recipe_item)
  ELSE NoExc

\* mutant of ApplyDefaults: a field the document gives with a falsy value is
\* overwritten too (`if not contents.get(item)`)
ApplyDefaultsOverFalsy(contents) ==
  [item \in (DOMAIN contents) \cup GlobalsFields |->
     IF item \in DOMAIN contents /\ (item \notin GlobalsFields \/ Truthy(contents[item]))
     THEN contents[item]
     ELSE DEFAULT_GLOBALS_RECIPE[item]]

\* lines 271-273
ApplyDefaults(contents) ==
  [item \in (DOMAIN contents) \cup GlobalsFields |->
     IF item \in DOMAIN contents THEN contents[item] ELSE DEFAULT_GLOBALS_RECIPE[item]]

\* dict.get(key, None)
Get(contents, key) == IF key \in DOMAIN contents THEN contents[key] ELSE PyNone

\* mutant of ExpandFiles: a file is read only when the field it fills is
\* still falsy
ExpandFilesUnlessInline(contents) ==
  LET filter_patterns_file == IF "filter_patterns_file" \in DOMAIN contents
                              THEN contents["filter_patterns_file"] ELSE PyNone
      yara_rules_file == IF "yara_rules_file" \in DOMAIN contents
                         THEN contents["yara_rules_file"] ELSE PyNone
      c1 == IF Truthy(filter_patterns_file) /\ ~Truthy(contents["filter_patterns"])
            THEN Put(contents, "filter_patterns", file_to_list(filter_patterns_file[2]))
            ELSE contents
  IN IF Truthy(yara_rules_file) /\ ~Truthy(contents["yara_rules"])
     THEN Put(c1, "yara_rules", file_to_str(yara_rules_file[2]))
     ELSE c1

\* lines 274-281
ExpandFiles(contents) ==
  LET filter_patterns_file == Get(contents, "filter_patterns_file")
      yara_rules_file == Get(contents, "yara_rules_file")
      c1 == IF Truthy(filter_patterns_file)
            THEN Put(contents, "filter_patterns", file_to_list(filter_patterns_file[2]))
            ELSE contents
  IN IF Truthy(yara_rules_file)
     THEN Put(c1, "yara_rules", file_to_str(yara_rules_file[2]))
     ELSE c1

\* the error a file helper raises on a file it cannot read; nothing catches it
ExpandRaises(contents) ==
  LET filter_patterns_file == Get(contents, "filter_patterns_file")
      yara_rules_file == Get(contents, "yara_rules_file")
  IN IF Truthy(filter_patterns_file) /\ ~Readable(filter_patterns_file[2])
     THEN Raise("IOError", "file_to_list", "globals")
     ELSE IF Truthy(yara_rules_file) /\ ~Readable(yara_rules_file[2])
     THEN Raise("IOError", "file_to_str", "globals")
     ELSE NoExc

\* line 283: the item's dict becomes reachable from the recipe r, and with
\* it the lists the document brought
Stored(r, contents) ==
  [k \in DOMAIN contents |-> IF IsLit(contents[k]) THEN ListRef(r, k) ELSE contents[k]]

StoreLists(hp, r, contents) ==
  [id \in DOMAIN hp |->
     IF id[1] = r /\ id[2] \in DOMAIN contents /\ IsLit(contents[id[2]])
     THEN Items(contents[id[2]])
     ELSE hp[id]]

\* the loop of lines 249-284 from item i on
RECURSIVE LoadItems(_, _, _, _, _, _)
LoadItems(r, recipe_dict, i, recipes, tasks_with_recipe, hp) ==
  IF i > Len(recipe_dict)
  THEN [task_recipes |-> recipes, heap |-> hp, exc |-> NoExc]
  ELSE
    LET recipe_item == recipe_dict[i].name
        recipe_item_contents == recipe_dict[i].contents
        raised == CheckItem(recipe_item, recipe_item_contents, recipes, tasks_with_recipe)
        isGlobals == recipe_item = "globals"
        defaulted == IF isGlobals THEN ApplyDefaults(recipe_item_contents)
                     ELSE recipe_item_contents
        fileError == IF isGlobals THEN ExpandRaises(defaulted) ELSE NoExc
        expanded == IF isGlobals THEN ExpandFiles(defaulted) ELSE defaulted
    IN IF raised # NoExc
       THEN [task_recipes |-> recipes, heap |-> hp, exc |-> raised]
       ELSE IF fileError # NoExc
       THEN [task_recipes |-> recipes, heap |-> hp, exc |-> fileError]
       ELSE LoadItems(r, recipe_dict, i + 1,
                      Put(recipes, recipe_item, Stored(r, expanded)),
                      Append(tasks_with_recipe, recipe_item),
                      StoreLists(hp, r, expanded))

load_recipe_from_dict(r, recipe_dict, recipes, hp) ==
  LoadItems(r, recipe_dict, 1, recipes, <<>>, hp)

----------------------------------------------------------------------------
(* The calls.  `last` keeps what the latest call was given and what it did. *)

Call(op, obj, doc, exc, pre, config_file, preCONFIG, reloaded, ret) ==
  [op |-> op, obj |-> obj, doc |-> doc, exc |-> exc, pre |-> pre,
   config_file |-> config_file, preCONFIG |-> preCONFIG,
   reloaded |-> reloaded, ret |-> ret]

NoCall == Call("none", "", <<>>, NoExc, EmptyDict, PyNone, NoConfig, PyNone, NoConfig)

\* recipe.load_recipe_from_dict(recipe_dict) on a freshly built dict
LoadRecipeFromDictCall(r, recipe_dict) ==
  LET res == load_recipe_from_dict(r, recipe_dict, task_recipes[r], heap)
  IN /\ task_recipes' = [task_recipes EXCEPT ![r] = res.task_recipes]
     /\ heap' = res.heap
     /\ last' = Call("load_recipe_from_dict", r, recipe_dict, res.exc, task_recipes[r],
                     PyNone, CONFIG, PyNone, NoConfig)
     /\ UNCHANGED <<CONFIG, module, recipe_file, task_recipe>>

\* recipe.load(), lines 222-245.  `file` is what open/read/yaml.load make of
\* the recipe file: an IOError, a ParserError or the parsed mapping.
LoadCall(r, environ, existing, contents, file) ==
  IF ~Truthy(recipe_file[r])
  THEN /\ task_recipe' = [task_recipe EXCEPT ![r] = DEFAULT_RECIPE]
       /\ last' = Call("load", r, <<>>, NoExc, task_recipes[r],
                       PyNone, CONFIG, PyNone, NoConfig)
       /\ UNCHANGED <<CONFIG, module, recipe_file, task_recipes, heap>>
  ELSE
    LET lc == LoadConfig(CONFIG, module, PyNone, environ, existing, contents)
        res == load_recipe_from_dict(r, file.doc, task_recipes[r], heap)
        readError == IF file.kind = "IOError"
                     THEN TurbiniaException("Failed to read recipe file", "")
                     ELSE TurbiniaException("Syntax error on recipe file", "")
    IN /\ CONFIG' = lc.CONFIG
       /\ module' = lc.module
       /\ UNCHANGED <<recipe_file, task_recipe>>
       /\ IF lc.exc # NoExc
          THEN /\ last' = Call("load", r, <<>>, lc.exc, task_recipes[r],
                               PyNone, CONFIG, lc.reloaded, lc.ret)
               /\ UNCHANGED <<task_recipes, heap>>
          ELSE IF file.kind # "mapping"
          THEN /\ last' = Call("load", r, <<>>, readError, task_recipes[r],
                               PyNone, CONFIG, lc.reloaded, lc.ret)
               /\ UNCHANGED <<task_recipes, heap>>
          ELSE /\ task_recipes' = [task_recipes EXCEPT ![r] = res.task_recipes]
               /\ heap' = res.heap
               /\ last' = Call("load", r, file.doc, res.exc, task_recipes[r],
                               PyNone, CONFIG, lc.reloaded, lc.ret)

\* LoadConfig(config_file) called from outside the recipe loader
LoadConfigCall(config_file, environ, existing, contents) ==
  LET lc == LoadConfig(CONFIG, module, config_file, environ, existing, contents)
  IN /\ CONFIG' = lc.CONFIG
     /\ module' = lc.module
     /\ last' = Call("LoadConfig", "", <<>>, lc.exc, EmptyDict,
                     config_file, CONFIG, lc.reloaded, lc.ret)
     /\ UNCHANGED <<recipe_file, task_recipes, task_recipe, heap>>

\* recipe._verify_global_recipe(), lines 286-303.  Nothing in the module calls
\* it.  Line 292 calls .format on the exception object, which has no such
\* attribute; line 300 reads two names no scope defines.
verify_global_recipe(recipes) ==
  IF "globals" \notin DOMAIN recipes
  THEN TurbiniaException("Specifying a global required", "globals")
  ELSE IF \E k \in DOMAIN recipes["globals"] : k \notin DOMAIN DEFAULT_GLOBALS_RECIPE
  THEN Raise("AttributeError", "format", "globals")
  ELSE Raise("NameError", "jobs_allowlist", "globals")

VerifyGlobalRecipeCall(r) ==
  /\ last' = Call("_verify_global_recipe", r, <<>>, verify_global_recipe(task_recipes[r]),
                  task_recipes[r], PyNone, CONFIG, PyNone, NoConfig)
  /\ UNCHANGED <<CONFIG, module, recipe_file, task_recipes, task_recipe, heap>>

\* a caller appends a job to one of the job lists it reaches through the
\* recipe: through task_recipes['globals'], or through the task_recipe that
\* load() set to the class's DEFAULT_RECIPE
JobLists(r, key) ==
  {RefId(task_recipes[r]["globals"][key]) : x \in
     {y \in {1} : /\ "globals" \in DOMAIN task_recipes[r]
                  /\ key \in DOMAIN task_recipes[r]["globals"]
                  /\ IsRef(task_recipes[r]["globals"][key])}}
    \cup {<<"DEFAULT", key>> : x \in {y \in {1} : task_recipe[r] = DEFAULT_RECIPE}}

AppendJob(r, key, job, bound) ==
  \E id \in JobLists(r, key) :
    /\ Len(heap[id]) < bound
    /\ heap' = [heap EXCEPT ![id] = Append(@, job)]
    /\ last' = Call("append", r, <<>>, NoExc, task_recipes[r],
                    PyNone, CONFIG, PyNone, NoConfig)
    /\ UNCHANGED <<CONFIG, module, recipe_file, task_recipes, task_recipe>>

----------------------------------------------------------------------------
(* Recipe documents *)

Objects == {"r1", "r2"}
ListIds == ({"DEFAULT"} \cup Objects) \X ListKeys
Dict(key, value) == [k \in {key} |-> value]
Entry(name, contents) == [name |-> name, contents |-> contents]

\* a mapping as yaml.load returns it: its keys differ, its items keep the
\* order of the text
DocsOver(entries, names) ==
  {d \in UNION {[1..n -> entries] : n \in 0..Cardinality(names)} :
     \A i, j \in 1..Len(d) : d[i].name = d[j].name => i = j}

TaskNames == {"a", "b"}
TaskContents == {EmptyDict, Dict("task", PyStr("k1")), Dict("task", PyStr("a")), NotAMapping}
TaskEntries ==
  {Entry(n, c) : n \in TaskNames, c \in TaskContents}
    \cup {Entry("globals", c) :
            c \in {EmptyDict, NotAMapping, Dict("filter_patterns_file", PyStr("/missing"))}}
TaskDocs == DocsOver(TaskEntries, TaskNames \cup {"globals"})

----------------------------------------------------------------------------
(* Spec: one recipe object, load_recipe_from_dict on documents of task items *)

InitWith(objects, files) ==
  /\ CONFIG = NoConfig
  /\ module = InitModule
  /\ recipe_file \in [objects -> files]
  /\ task_recipes = [r \in objects |-> EmptyDict]
  /\ task_recipe = [r \in objects |-> "unset"]
  /\ heap = [id \in ListIds |-> <<>>]
  /\ last = NoCall

Init == InitWith({"r1"}, {PyNone})

LoadTasks == \E r \in DOMAIN recipe_file, d \in TaskDocs : LoadRecipeFromDictCall(r, d)

Next == LoadTasks

Spec == Init /\ [][Next]_vars

----------------------------------------------------------------------------
(* Claims about load_recipe_from_dict, checked under Spec *)

IsDictCall == last.op = "load_recipe_from_dict"

\* item i of d is a task item that names its task
HasTask(d, i) ==
  d[i].name # "globals" /\ IsMapping(d[i].contents) /\ "task" \in DOMAIN d[i].contents

\* item i of d is a task item, a mapping, without a 'task' key
LacksTask(d, i) ==
  d[i].name # "globals" /\ IsMapping(d[i].contents) /\ "task" \notin DOMAIN d[i].contents

MissingTaskError(name) == TurbiniaException("Recipe item has not task key", name)

\* C1: a document in which two different task items carry the same 'task'
\* value makes load_recipe_from_dict raise, whatever the order of its items.
\* (The claim names TurbiniaException; any exception is accepted here, so
\* that a violation is a load that succeeds.)
C1_DuplicateTaskKindRejected ==
  IsDictCall =>
    ((\E i, j \in 1..Len(last.doc) :
        /\ i # j
        /\ HasTask(last.doc, i)
        /\ HasTask(last.doc, j)
        /\ last.doc[i].contents["task"] = last.doc[j].contents["task"])
      => last.exc # NoExc)

\* C5: a load_recipe_from_dict that raises leaves task_recipes as it was
\* before the call.
C5_NoPartialState ==
  (IsDictCall /\ last.exc # NoExc) => task_recipes[last.obj] = last.pre

\* C6 as stated: every task item without a 'task' key makes the call raise
\* the TurbiniaException that names this very item, wherever the item stands,
\* and the error never names globals.
C6_MissingTaskNamedAnywhere ==
  IsDictCall =>
    /\ \A i \in 1..Len(last.doc) :
         LacksTask(last.doc, i) => last.exc = MissingTaskError(last.doc[i].name)
    /\ last.exc.msg = MissingTaskError("").msg => last.exc.item # "globals"

\* item j of d passes every check of the loop: its name is not loaded yet, it
\* is a mapping, it is globals or has a 'task' value that is no earlier item's
\* name, and the files it names can be read
Accepted(d, pre, j) ==
  LET c == d[j].contents
  IN /\ d[j].name \notin DOMAIN pre
     /\ IsMapping(c)
     /\ IF "task" \in DOMAIN c
        THEN \A m \in 1..(j - 1) : c["task"] # PyStr(d[m].name)
        ELSE d[j].name = "globals"
     /\ d[j].name = "globals" =>
          \A k \in {"filter_patterns_file", "yara_rules_file"} :
            (k \in DOMAIN c /\ Truthy(c[k])) => c[k][2] # "/missing"

\* C6 as amended: a document with a task item without a 'task' key always
\* makes the call raise; the exception is the missing-task TurbiniaException
\* naming that item when every earlier item is accepted and the item's own
\* name is not loaded yet; the missing-task error only ever names a task item
\* of the document that lacks the key, never globals.
C6_MissingTaskFirstRejected ==
  IsDictCall =>
    /\ \A i \in 1..Len(last.doc) :
         LacksTask(last.doc, i) =>
           /\ last.exc # NoExc
           /\ ((\A j \in 1..(i - 1) : Accepted(last.doc, last.pre, j))
                 /\ last.doc[i].name \notin DOMAIN last.pre)
                => last.exc = MissingTaskError(last.doc[i].name)
    /\ last.exc.msg = MissingTaskError("").msg =>
         /\ last.exc.item # "globals"
         /\ \E i \in 1..Len(last.doc) :
              LacksTask(last.doc, i) /\ last.doc[i].name = last.exc.item

\* C6 witness: globals without 'task' and a complete task item are accepted,
\* and the third item, which lacks 'task', is named by the error
C6_Witness ==
  /\ IsDictCall
  /\ Len(last.doc) = 3
  /\ last.doc[1] = Entry("globals", EmptyDict)
  /\ HasTask(last.doc, 2)
  /\ LacksTask(last.doc, 3)
  /\ last.exc = MissingTaskError(last.doc[3].name)

----------------------------------------------------------------------------
(* SpecGlobals: one recipe object, load() on recipe files whose mapping is a *)
(* globals item, and _verify_global_recipe()                                 *)

MaxGlobalsKeys == 2

GlobalsKeys == GlobalsFields \cup {"filter_patterns_file", "yara_rules_file", "bogusKey"}

GlobalsValues(key) ==
  CASE key = "debug_tasks" -> {PyTrue}
    [] key = "jobs_allowlist" -> {ListLit(<<>>), ListLit(<<"J1">>)}
    [] key = "jobs_denylist" -> {ListLit(<<"J1">>)}
    [] key = "yara_rules" -> {PyStr("inline rule")}
    [] key = "filter_patterns" -> {ListLit(<<"p1">>)}
    [] key = "filter_patterns_file" -> {PyStr(""), PyStr("/pf")}
    [] key = "yara_rules_file" -> {PyStr("/yf")}
    [] key = "bogusKey" -> {PyInt("1")}

DictsOver(keys) ==
  {c \in [keys -> UNION {GlobalsValues(k) : k \in keys}] :
     \A k \in keys : c[k] \in GlobalsValues(k)}

\* globals items of at most MaxGlobalsKeys keys, and those that give all five
\* fields
GlobalsContents ==
  UNION {DictsOver(keys) : keys \in {ks \in SUBSET GlobalsKeys : Cardinality(ks) <= MaxGlobalsKeys}}
    \cup DictsOver(GlobalsFields)

GlobalsDocs ==
  {<<Entry("globals", c)>> : c \in GlobalsContents}
    \cup {<<>>, <<Entry("a", Dict("task", PyStr("k1")))>>}

RecipeFileReads ==
  {[kind |-> "mapping", doc |-> d] : d \in GlobalsDocs}
    \cup {[kind |-> k, doc |-> <<>>] : k \in {"IOError", "ParserError"}}

RecipeFiles == {PyNone, PyStr(""), PyStr("/recipe.yaml")}

EtcConf == JoinPath("/etc/turbinia", "turbinia.conf")

InitGlobals == InitWith({"r1"}, RecipeFiles)

LoadGlobals ==
  \E r \in DOMAIN recipe_file, f \in RecipeFileReads :
    LoadCall(r, PyNone, {EtcConf}, "v1", f)

VerifyGlobals == \E r \in DOMAIN recipe_file : VerifyGlobalRecipeCall(r)

NextGlobals == LoadGlobals \/ VerifyGlobals

SpecGlobals == InitGlobals /\ [][NextGlobals]_vars

----------------------------------------------------------------------------
(* Claims about load() and the globals item, checked under SpecGlobals *)

IsLoadCall == last.op = "load"
Loaded == IsLoadCall /\ last.exc = NoExc

\* the globals item of the document the latest call read
HasGlobalsDoc ==
  Len(last.doc) = 1 /\ last.doc[1].name = "globals" /\ IsMapping(last.doc[1].contents)
GlobalsDoc == last.doc[1].contents

HasGlobals(r) == "globals" \in DOMAIN task_recipes[r]
Globals(r) == task_recipes[r]["globals"]

Elements(seq) == {seq[n] : n \in 1..Len(seq)}

\* the items of a list value: of a stored list, of a list in a document
ListItems(v) == IF IsRef(v) THEN heap[RefId(v)] ELSE Items(v)

\* C2: a load() that returns leaves globals with no job in both
\* jobs_allowlist and jobs_denylist, and a document that lists a job in both
\* makes load() raise.
C2_AllowDenyDisjoint ==
  /\ (Loaded /\ HasGlobals(last.obj)) =>
       Elements(ListItems(Globals(last.obj)["jobs_allowlist"]))
         \cap Elements(ListItems(Globals(last.obj)["jobs_denylist"])) = {}
  /\ (IsLoadCall /\ HasGlobalsDoc
        /\ {"jobs_allowlist", "jobs_denylist"} \subseteq DOMAIN GlobalsDoc
        /\ Elements(ListItems(GlobalsDoc["jobs_allowlist"]))
             \cap Elements(ListItems(GlobalsDoc["jobs_denylist"])) # {})
       => last.exc # NoExc

AllowedGlobalsKeys == GlobalsFields \cup {"filter_patterns_file", "yara_rules_file"}

\* C3: load() raises whenever the globals item of the document has a key
\* outside the five fields and the two *_file keys, and never raises an
\* unknown-key error for a globals item of those seven keys only.  (Any
\* exception is accepted as the rejection, so that a violation is a load that
\* succeeds.)
C3_GlobalsKeyAllowlist ==
  (IsLoadCall /\ HasGlobalsDoc) =>
    /\ (\E k \in DOMAIN GlobalsDoc : k \notin AllowedGlobalsKeys) => last.exc # NoExc
    /\ (DOMAIN GlobalsDoc \subseteq AllowedGlobalsKeys) =>
         last.exc.msg # "Unknown key found on globals recipe item"

\* C4: after a load() that returns, task_recipes has a globals item with all
\* five fields, and after a load() without recipe_file task_recipes is
\* exactly {'globals': the five defaults}.
C4_GlobalsAlwaysPresent ==
  Loaded =>
    /\ HasGlobals(last.obj)
    /\ GlobalsFields \subseteq DOMAIN Globals(last.obj)
    /\ ~Truthy(recipe_file[last.obj]) =>
         task_recipes[last.obj] = Dict("globals", DEFAULT_GLOBALS_RECIPE)

\* C7: when the globals item of a loaded document has a filter_patterns_file
\* path, the loaded filter_patterns is the list file_to_list returns for the
\* path, whatever filter_patterns the document gave; likewise yara_rules is
\* the text file_to_str returns for a yara_rules_file path.
C7_FileExpansionOverrides ==
  (Loaded /\ HasGlobalsDoc) =>
    /\ ("filter_patterns_file" \in DOMAIN GlobalsDoc
          /\ Truthy(GlobalsDoc["filter_patterns_file"])) =>
         /\ IsRef(Globals(last.obj)["filter_patterns"])
         /\ RefId(Globals(last.obj)["filter_patterns"]) = <<last.obj, "filter_patterns">>
         /\ ListItems(Globals(last.obj)["filter_patterns"])
              = FileLines(GlobalsDoc["filter_patterns_file"][2])
    /\ ("yara_rules_file" \in DOMAIN GlobalsDoc
          /\ Truthy(GlobalsDoc["yara_rules_file"])) =>
         Globals(last.obj)["yara_rules"] = PyStr(FileText(GlobalsDoc["yara_rules_file"][2]))

\* C7 witness: a document with an inline filter_patterns and a
\* filter_patterns_file is loaded, and the loaded list is the file's
C7_Witness ==
  /\ Loaded
  /\ HasGlobalsDoc
  /\ {"filter_patterns", "filter_patterns_file"} \subseteq DOMAIN GlobalsDoc
  /\ GlobalsDoc["filter_patterns"] = ListLit(<<"p1">>)
  /\ GlobalsDoc["filter_patterns_file"] = PyStr("/pf")
  /\ ListItems(Globals(last.obj)["filter_patterns"]) = <<"a", "b">>

\* the fields a *_file key of the document replaces (C7)
Expanded(c) ==
  {k \in {"filter_patterns", "yara_rules"} :
     LET f == IF k = "filter_patterns" THEN "filter_patterns_file" ELSE "yara_rules_file"
     IN f \in DOMAIN c /\ Truthy(c[f])}

\* the loaded value v of key k is the value w the document gave: the same
\* scalar, or the document's own list with the document's items
KeepsValue(r, k, v, w) ==
  IF IsLit(w)
  THEN v = ListRef(r, k) /\ heap[<<r, k>>] = Items(w)
  ELSE v = w

\* C8: in the globals item of a loaded document, each of the five fields the
\* document leaves out has the built-in default, each key the document gives
\* keeps the document's value, falsy or empty values included, and no other
\* key appears.  (filter_patterns and yara_rules are left to C7 when a *_file
\* key replaces them.)
C8_DefaultingFillsOnlyMissing ==
  (Loaded /\ HasGlobalsDoc) =>
    /\ DOMAIN Globals(last.obj) = (DOMAIN GlobalsDoc) \cup GlobalsFields
    /\ \A k \in (DOMAIN Globals(last.obj)) \ Expanded(GlobalsDoc) :
         IF k \in DOMAIN GlobalsDoc
         THEN KeepsValue(last.obj, k, Globals(last.obj)[k], GlobalsDoc[k])
         ELSE Globals(last.obj)[k] = DEFAULT_GLOBALS_RECIPE[k]

\* C8 witness: the document gives an empty jobs_allowlist and no debug_tasks;
\* the loaded globals has the document's own empty list and the default False
C8_Witness ==
  /\ Loaded
  /\ HasGlobalsDoc
  /\ "jobs_allowlist" \in DOMAIN GlobalsDoc
  /\ GlobalsDoc["jobs_allowlist"] = ListLit(<<>>)
  /\ "debug_tasks" \notin DOMAIN GlobalsDoc
  /\ Globals(last.obj)["jobs_allowlist"] = ListRef(last.obj, "jobs_allowlist")
  /\ Globals(last.obj)["debug_tasks"] = PyFalse

----------------------------------------------------------------------------
(* SpecConfig: LoadConfig called with and without a path, in any file system *)

ConfigFileArgs == {PyNone, PyStr(""), PyStr("/custom.conf"), PyStr("/other.conf")}
Environs == {PyNone, PyStr("/opt/turbinia")}
DefaultCandidates ==
  {JoinPath("~", "turbinia.conf"), EtcConf, JoinPath("/opt/turbinia", ".turbiniarc")}
ConfigFileContents == {Unreadable, Incomplete} \cup CompleteConfigs

LoadConfigStep ==
  \E config_file \in ConfigFileArgs, environ \in Environs,
     existing \in SUBSET DefaultCandidates, contents \in ConfigFileContents :
    LoadConfigCall(config_file, environ, existing, contents)

InitConfig == InitWith({"r1"}, {PyNone})

NextConfig == LoadConfigStep

SpecConfig == InitConfig /\ [][NextConfig]_vars

IsLoadConfigCall == last.op = "LoadConfig"

\* C9: once a config is cached, LoadConfig() without a path returns the
\* cached CONFIG and reads no file; LoadConfig(path) always reads that path,
\* and when it succeeds the cache is the config just loaded from it.
C9_ConfigCache ==
  IsLoadConfigCall =>
    /\ (~last.preCONFIG.isNone /\ ~Truthy(last.config_file)) =>
         /\ last.exc = NoExc
         /\ last.reloaded = PyNone
         /\ last.ret = last.preCONFIG
         /\ CONFIG = last.preCONFIG
    /\ ~last.preCONFIG.isNone => ~CONFIG.isNone
    /\ Truthy(last.config_file) =>
         /\ last.reloaded = last.config_file
         /\ last.exc = NoExc =>
              /\ ~CONFIG.isNone
              /\ CONFIG = last.ret
              /\ CONFIG.configSource = last.config_file
              /\ CONFIG.contents = module.vars

\* C9 witness: the cache holds a config loaded from an explicit path, and a
\* call without a path returned it without reading a file
C9_Witness ==
  /\ IsLoadConfigCall
  /\ last.config_file = PyNone
  /\ last.preCONFIG.configSource = PyStr("/custom.conf")
  /\ last.ret = last.preCONFIG
  /\ last.reloaded = PyNone
  /\ CONFIG = last.preCONFIG

----------------------------------------------------------------------------
(* SpecShare: two recipe objects are loaded and a caller changes job lists *)

MaxListLen == 2

SharedDocs ==
  {<<Entry("globals", EmptyDict)>>,
   <<Entry("globals", Dict("jobs_allowlist", ListLit(<<"J1">>)))>>}

LoadShared ==
  \E r \in DOMAIN recipe_file, d \in SharedDocs, existing \in SUBSET {EtcConf} :
    LoadCall(r, PyNone, existing, "v1", [kind |-> "mapping", doc |-> d])

AppendShared ==
  \E r \in DOMAIN recipe_file, key \in {"jobs_allowlist", "jobs_denylist"} :
    AppendJob(r, key, "J9", MaxListLen)

InitShare == InitWith(Objects, {PyNone, PyStr("/recipe.yaml")})

NextShare == LoadShared \/ AppendShared

SpecShare == InitShare /\ [][NextShare]_vars

\* C10: when a caller appends a job to a job list of one loaded recipe, the
\* lists of the built-in defaults and the job lists of every other recipe
\* stay as they were.
C10_NoSharedMutableState ==
  [][(last'.op = "append")
       => /\ \A key \in {"jobs_allowlist", "jobs_denylist"} :
               heap'[<<"DEFAULT", key>>] = heap[<<"DEFAULT", key>>]
          /\ \A q \in (DOMAIN recipe_file) \ {last'.obj} :
               \A key \in {"jobs_allowlist", "jobs_denylist"} :
                 \A id \in JobLists(q, key) : heap'[id] = heap[id]]_vars

====
